---------------------------- MODULE Spec2Model ----------------------------
(***************************************************************************)
(* Model of the NSAI detector service (src/src/main.rs and its wrappers):  *)
(* the consumer loop run_consumer, the per-message pipeline                *)
(* process_message, the metrics registry and the metrics server.           *)
(*                                                                         *)
(* The consumer is one sequential task; every .await of process_message is *)
(* a point where the metrics server, the broker and the interrupt signal   *)
(* may take steps, so each action below is the code between two awaits.    *)
(***************************************************************************)
EXTENDS Integers, Sequences, FiniteSets, TLC

(***************************************************************************)
(* Bounds of the model.                                                    *)
(***************************************************************************)
MaxMsgs == 2          \* message handles the pull sequence delivers
MaxTransportErrs == 1 \* transport-level error items the pull sequence yields
MaxConns == 1         \* connections to the metrics server open at a time

Handles == 1..MaxMsgs

(***************************************************************************)
(* Envelope codec: prost's decoder for AnalysisInput (model_pb.rs:12-25).  *)
(* A payload is a sequence of bytes.  Decoding reads (key, value) pairs    *)
(* until the buffer is empty; tags 1..4 are length-delimited UTF-8         *)
(* strings, any other tag is skipped according to its wire type.           *)
(***************************************************************************)
Byte == 0..255

Pow2(n) == 2 ^ n

DropN(s, n) == SubSeq(s, n + 1, Len(s))

TakeN(s, n) == SubSeq(s, 1, n)

VarintFail == [ok |-> FALSE, lo |-> 0, hi |-> 0, rest |-> <<>>]

Min(a, b) == IF a < b THEN a ELSE b

\* What byte i of a varint adds to the high part, in units of 2^28; the
\* high part saturates at 16, that is at 2^32.
HighTerm(i, b) ==
    IF i = 5 THEN b % 128 ELSE IF b % 128 > 0 THEN 16 ELSE 0

RECURSIVE VarintFrom(_, _, _, _)
\* Base-128 varint, least significant group first, at most ten bytes, the
\* tenth at most 1.  The number read is lo + hi * 2^28: lo holds the first
\* four groups, hi the rest.
VarintFrom(buf, i, lo, hi) ==
    IF i > Len(buf) \/ i > 10 THEN VarintFail
    ELSE LET b == buf[i]
             lo2 == IF i <= 4 THEN lo + (b % 128) * Pow2(7 * (i - 1)) ELSE lo
             hi2 == IF i <= 4 THEN hi ELSE Min(16, hi + HighTerm(i, b))
         IN  IF b < 128
             THEN IF i = 10 /\ b >= 2 THEN VarintFail
                  ELSE [ok |-> TRUE, lo |-> lo2, hi |-> hi2,
                        rest |-> DropN(buf, i)]
             ELSE VarintFrom(buf, i + 1, lo2, hi2)

DecodeVarint(buf) == VarintFrom(buf, 1, 0, 0)

\* A length prefix that does not fit the rest of the buffer.
Underflow(v) == v.hi > 0 \/ v.lo > Len(v.rest)

\* A field key: (tag << 3) | wire_type, at most u32::MAX, tag >= 1,
\* wire_type in 0..5.
DecodeKey(buf) ==
    LET v == DecodeVarint(buf)
        tag == (v.lo \div 8) + v.hi * Pow2(25)
    IN  IF ~v.ok \/ v.hi >= 16 \/ v.lo % 8 > 5 \/ tag < 1
        THEN [ok |-> FALSE, tag |-> 0, wt |-> 0, rest |-> <<>>]
        ELSE [ok |-> TRUE, tag |-> tag, wt |-> v.lo % 8, rest |-> v.rest]

IsCont(b) == b >= 128 /\ b <= 191

\* Length of the character a lead byte opens; 0 for a byte that opens none
\* (a continuation byte, C0, C1, F5..FF).
CharLen(b) ==
    IF b < 128 THEN 1
    ELSE IF b >= 194 /\ b <= 223 THEN 2
    ELSE IF b >= 224 /\ b <= 239 THEN 3
    ELSE IF b >= 240 /\ b <= 244 THEN 4
    ELSE 0

\* The character opened at position i is well formed: its continuation
\* bytes are all there, and the second byte rules out overlong forms,
\* surrogates and code points above U+10FFFF.
CharAt(s, i) ==
    LET b == s[i]
        l == CharLen(b)
    IN  /\ l >= 1
        /\ i + l - 1 <= Len(s)
        /\ \A k \in 1..(l - 1) : IsCont(s[i + k])
        /\ (b = 224 => s[i + 1] >= 160)
        /\ (b = 237 => s[i + 1] <= 159)
        /\ (b = 240 => s[i + 1] >= 144)
        /\ (b = 244 => s[i + 1] <= 143)

\* str::from_utf8: every byte that is not a continuation byte opens a well
\* formed character, and every continuation byte belongs to the character
\* opened at most three bytes before it.
Utf8Valid(s) ==
    \A i \in 1..Len(s) :
        IF IsCont(s[i])
        THEN \E j \in 1..3 :
                /\ i - j >= 1
                /\ CharLen(s[i - j]) > j
                /\ \A k \in 1..(j - 1) : IsCont(s[i - k])
        ELSE CharAt(s, i)

SkipFail == [ok |-> FALSE, rest |-> <<>>]

RECURSIVE SkipField(_, _, _)
RECURSIVE SkipGroup(_, _)
\* An unknown field is skipped by its wire type: 0 varint, 1 eight bytes,
\* 2 length-delimited, 3 a group up to its end marker, 5 four bytes.
SkipField(wt, tag, buf) ==
    IF wt = 0
    THEN LET v == DecodeVarint(buf) IN [ok |-> v.ok, rest |-> v.rest]
    ELSE IF wt = 1
    THEN IF Len(buf) < 8 THEN SkipFail ELSE [ok |-> TRUE, rest |-> DropN(buf, 8)]
    ELSE IF wt = 2
    THEN LET v == DecodeVarint(buf)
         IN  IF ~v.ok \/ Underflow(v) THEN SkipFail
             ELSE [ok |-> TRUE, rest |-> DropN(v.rest, v.lo)]
    ELSE IF wt = 3
    THEN SkipGroup(tag, buf)
    ELSE IF wt = 5
    THEN IF Len(buf) < 4 THEN SkipFail ELSE [ok |-> TRUE, rest |-> DropN(buf, 4)]
    ELSE SkipFail

SkipGroup(tag, buf) ==
    LET k == DecodeKey(buf)
    IN  IF ~k.ok THEN SkipFail
        ELSE IF k.wt = 4
        THEN IF k.tag = tag THEN [ok |-> TRUE, rest |-> k.rest] ELSE SkipFail
        ELSE LET s == SkipField(k.wt, k.tag, k.rest)
             IN  IF ~s.ok THEN SkipFail ELSE SkipGroup(tag, s.rest)

EmptyInput ==
    [content_hash |-> <<>>, content_text |-> <<>>,
     source_id |-> <<>>, image_url |-> <<>>]

DecodeFail == [ok |-> FALSE, v |-> EmptyInput]

\* Variant: the decoder stores field 3 and field 4 in each other's place.
SetField_Swapped(v, tag, s) ==
    IF tag = 1 THEN [v EXCEPT !.content_hash = s]
    ELSE IF tag = 2 THEN [v EXCEPT !.content_text = s]
    ELSE IF tag = 3 THEN [v EXCEPT !.image_url = s]
    ELSE [v EXCEPT !.source_id = s]

SetField(v, tag, s) ==
    IF tag = 1 THEN [v EXCEPT !.content_hash = s]
    ELSE IF tag = 2 THEN [v EXCEPT !.content_text = s]
    ELSE IF tag = 3 THEN [v EXCEPT !.source_id = s]
    ELSE [v EXCEPT !.image_url = s]

RECURSIVE Merge(_, _)
Merge(v, buf) ==
    IF buf = <<>> THEN [ok |-> TRUE, v |-> v]
    ELSE LET k == DecodeKey(buf)
         IN  IF ~k.ok THEN DecodeFail
             ELSE IF k.tag \in 1..4
             THEN IF k.wt # 2 THEN DecodeFail
                  ELSE LET l == DecodeVarint(k.rest)
                       IN  IF ~l.ok \/ Underflow(l) THEN DecodeFail
                           ELSE IF ~Utf8Valid(TakeN(l.rest, l.lo))
                           THEN DecodeFail
                           ELSE Merge(SetField(v, k.tag, TakeN(l.rest, l.lo)),
                                      DropN(l.rest, l.lo))
             ELSE LET s == SkipField(k.wt, k.tag, k.rest)
                  IN  IF ~s.ok THEN DecodeFail ELSE Merge(v, s.rest)

\* AnalysisInput::decode: absent fields keep the default empty string.
Decode(buf) == Merge(EmptyInput, buf)

\* Message::encode_to_vec of the derived impl: a varint is written low
\* seven bits first, with the continuation bit on every byte but the last.
RECURSIVE EncodeVarint(_)
EncodeVarint(n) ==
    IF n < 128 THEN <<n>>
    ELSE <<(n % 128) + 128>> \o EncodeVarint(n \div 128)

\* A string field equal to the default "" is not written; any other is
\* written as key (tag, wire type 2), length, bytes.
EncodeString(tag, s) ==
    IF s = <<>> THEN <<>>
    ELSE EncodeVarint(tag * 8 + 2) \o EncodeVarint(Len(s)) \o s

\* Fields are written in tag order.
Encode(v) ==
    EncodeString(1, v.content_hash) \o EncodeString(2, v.content_text)
        \o EncodeString(3, v.source_id) \o EncodeString(4, v.image_url)

(***************************************************************************)
(* Payloads the broker delivers in the model: well-formed envelopes and    *)
(* byte strings the decoder rejects.                                       *)
(***************************************************************************)
Payloads ==
    { <<>>,                        \* every field absent
      <<40, 1, 10, 1, 97, 26, 1, 115>>, \* unknown field 5, then content_hash
                                        \* "a" and source_id "s"
      <<10, 5, 97>>,               \* length runs past the buffer
      <<10, 1, 255>> }             \* field 1 is not UTF-8

\* AnalysisInput::decode on each payload of the model.
Decoded == [p \in Payloads |-> Decode(p)]


(***************************************************************************)
(* Stage implementations.  Scores are f32 literals with one decimal; the   *)
(* model holds them in tenths (0.5 is 5), which keeps every comparison of  *)
(* run_datalog exact.  A map is a function on the set of its keys.         *)
(***************************************************************************)
EmptyMap == [k \in {} |-> 0]

\* Variant: the placeholder scores every content as 0.7 fake.
run_inference_Suspicious(content_hash) ==
    [ok |-> TRUE,
     v |-> [k \in {"fakeness_score", "emotion_score"} |->
               IF k = "fakeness_score" THEN 7 ELSE 3]]

\* onnx_wrapper::run_inference: the placeholder ignores content_hash.
run_inference(content_hash) ==
    [ok |-> TRUE,
     v |-> [k \in {"fakeness_score", "emotion_score"} |->
               IF k = "fakeness_score" THEN 5 ELSE 3]]

\* main.rs fetch_dgraph_facts: the placeholder ignores source_id.
fetch_dgraph_facts(source_id) ==
    [k \in {"source_trusted"} |-> "true"]

\* Variant: the thresholds are inclusive.
run_datalog_Inclusive(neural_features, dgraph_facts) ==
    LET fakeness ==
            IF "fakeness_score" \in DOMAIN neural_features
            THEN neural_features["fakeness_score"] ELSE 0
        source_trusted ==
            IF "source_trusted" \in DOMAIN dgraph_facts
            THEN dgraph_facts["source_trusted"] = "true" ELSE FALSE
    IN  IF fakeness >= 8 /\ ~source_trusted
        THEN [ok |-> TRUE, verdict |-> "DISINFO"]
        ELSE IF fakeness >= 6
        THEN [ok |-> TRUE, verdict |-> "SUSPICIOUS"]
        ELSE [ok |-> TRUE, verdict |-> "SAFE"]

\* souffle_wrapper::run_datalog.
run_datalog(neural_features, dgraph_facts) ==
    LET fakeness ==
            IF "fakeness_score" \in DOMAIN neural_features
            THEN neural_features["fakeness_score"] ELSE 0
        source_trusted ==
            IF "source_trusted" \in DOMAIN dgraph_facts
            THEN dgraph_facts["source_trusted"] = "true" ELSE FALSE
    IN  IF fakeness > 8 /\ ~source_trusted
        THEN [ok |-> TRUE, verdict |-> "DISINFO"]
        ELSE IF fakeness > 6
        THEN [ok |-> TRUE, verdict |-> "SUSPICIOUS"]
        ELSE [ok |-> TRUE, verdict |-> "SAFE"]

StageErr == [ok |-> FALSE]

\* Feature maps and fact maps another implementation of the stage
\* interfaces may return.
FeatureMaps ==
    { EmptyMap, [k \in {"fakeness_score"} |-> 9] }

FactMaps ==
    { EmptyMap, [k \in {"source_trusted"} |-> "false"] }

Impls == {"shipped", "contract"}

(***************************************************************************)
(* State.                                                                  *)
(***************************************************************************)
VARIABLES
    impl,               \* stage implementations linked into the service
    pc,                 \* position of the consumer task
    listener,           \* the ctrl_c future of the current select!
    result,             \* what run_consumer returned
    msg,                \* the message handle process_message works on
    input,              \* process_message: the decoded AnalysisInput
    neural_features,    \* process_message: result of run_inference
    dgraph_facts,       \* process_message: result of fetch_dgraph_facts
    messages_processed, \* Metrics.messages_processed
    errors,             \* Metrics.errors
    latency,            \* Metrics.latency: number of observations
    delivered,          \* message handles messages.next() has yielded
    transport_errs,     \* error items messages.next() has yielded
    decodable,          \* yielded handles whose payload decodes
    cause,              \* why the loop was left: "signal" or "end"
    signalled,          \* where the latest interrupt found the loop:
                        \* "idle" (in select!), "inflight" or "never"
    acks,               \* per handle: ack calls the broker has received
    released,           \* handles whose ack call has returned
    ack_result,         \* what the last ack call returned
    trace,              \* effects of processing the message in hand, in order
    base,               \* the counters when the message in hand was taken
    verdict,            \* the verdict logged for the message in hand
    srv,                \* run_metrics_server: position of the accept loop
    conns,              \* connections with a live handler task
    last_status         \* status of the last response sent, 0 before the first

metricsVars == <<messages_processed, errors, latency>>

localVars == <<input, neural_features, dgraph_facts>>

pullVars == <<delivered, decodable, transport_errs, cause>>

histVars == <<acks, released, ack_result, trace, base, verdict>>

consumerVars == <<pc, listener, result, msg, localVars, pullVars, histVars>>

serverVars == <<srv, conns, last_status>>

vars == <<impl, consumerVars, metricsVars, signalled, serverVars>>

NoMsg == [id |-> 0, payload |-> <<>>]

Counters ==
    [processed |-> messages_processed, errors |-> errors, latency |-> latency]

ZeroCounters == [processed |-> 0, errors |-> 0, latency |-> 0]

\* A handle is in flight from the moment it is taken until its ack returns.
InFlight == {h \in Handles : h <= delivered /\ h \notin released}

\* Metrics::new and the entry of run_consumer: the first select! is polled.
Init ==
    /\ impl \in Impls
    /\ pc = "select"
    /\ listener = "armed"
    /\ result = "none"
    /\ msg = NoMsg
    /\ input = EmptyInput
    /\ neural_features = EmptyMap
    /\ dgraph_facts = EmptyMap
    /\ messages_processed = 0
    /\ errors = 0
    /\ latency = 0
    /\ delivered = 0
    /\ decodable = 0
    /\ transport_errs = 0
    /\ cause = "none"
    /\ signalled = "never"
    /\ acks = [h \in Handles |-> 0]
    /\ released = {}
    /\ ack_result = "none"
    /\ trace = <<>>
    /\ base = ZeroCounters
    /\ verdict = "none"
    /\ srv = "bind"
    /\ conns = 0
    /\ last_status = 0

Count(seq, x) == Cardinality({i \in 1..Len(seq) : seq[i] = x})

\* Runs a stretch of process_message, given as its effects in program
\* order: counter increments, the latency observation and msg.ack() (the
\* call reaches the broker; its result comes back later).
Run(effects) ==
    /\ messages_processed' = messages_processed + Count(effects, "processed.inc")
    /\ errors' = errors + Count(effects, "errors.inc")
    /\ latency' = latency + Count(effects, "latency.observe")
    /\ acks' = [acks EXCEPT ![msg.id] = @ + Count(effects, "ack")]
    /\ trace' = trace \o effects

(***************************************************************************)
(* run_consumer: one select! per loop iteration.                           *)
(***************************************************************************)
\* Variant: the interrupt is raced against the whole iteration, so that it
\* ends the loop while a message is being processed.
Signal_Aborts ==
    /\ pc # "exited"
    /\ signalled' = IF pc = "select" THEN "idle" ELSE "inflight"
    /\ IF pc = "select"
       THEN /\ listener' = "fired"
            /\ UNCHANGED <<pc, result, cause>>
       ELSE /\ listener' = "none"
            /\ pc' = "exited"
            /\ result' = "Ok"
            /\ cause' = "signal"
    /\ UNCHANGED <<impl, msg, localVars, delivered, decodable,
                   transport_errs, histVars,
                   metricsVars, serverVars>>

\* An interrupt reaches the process.  Only a ctrl_c future that is being
\* polled sees it; tokio's handler stays installed, so an interrupt that
\* finds no such future has no effect.
Signal ==
    /\ pc # "exited"
    /\ signalled' = IF pc = "select" THEN "idle" ELSE "inflight"
    /\ listener' = IF listener = "armed" THEN "fired" ELSE listener
    /\ UNCHANGED <<impl, pc, result, msg, localVars, pullVars, histVars,
                   metricsVars, serverVars>>

\* select! branch ctrl_c(): break, then Ok(()).
SelectCtrlC ==
    /\ pc = "select"
    /\ listener = "fired"
    /\ pc' = "exited"
    /\ cause' = "signal"
    /\ result' = "Ok"
    /\ listener' = "none"
    /\ UNCHANGED <<impl, msg, localVars, delivered, decodable,
                   transport_errs, histVars,
                   metricsVars, signalled, serverVars>>

\* Variant: the next message is taken while the ack of the previous one is
\* still outstanding.
SelectMessage_Early ==
    /\ pc \in {"select", "ack"}
    /\ delivered < MaxMsgs
    /\ \E p \in Payloads :
          /\ msg' = [id |-> delivered + 1, payload |-> p]
          /\ decodable' = IF Decoded[p].ok THEN decodable + 1 ELSE decodable
    /\ delivered' = delivered + 1
    /\ listener' = "none"
    /\ base' = Counters
    /\ ack_result' = "none"
    /\ pc' = "received"
    /\ UNCHANGED <<impl, result, localVars, transport_errs, cause, acks,
                   released, trace, verdict, metricsVars, signalled,
                   serverVars>>

\* select! branch messages.next() = Some(Ok(message)): the ctrl_c future of
\* this select! is dropped and process_message is called.
SelectMessage ==
    /\ pc = "select"
    /\ delivered < MaxMsgs
    /\ \E p \in Payloads :
          /\ msg' = [id |-> delivered + 1, payload |-> p]
          /\ decodable' = IF Decoded[p].ok THEN decodable + 1 ELSE decodable
    /\ delivered' = delivered + 1
    /\ listener' = "none"
    /\ base' = Counters
    /\ ack_result' = "none"
    /\ pc' = "received"
    /\ UNCHANGED <<impl, result, localVars, transport_errs, cause, acks,
                   released, trace, verdict, metricsVars, signalled,
                   serverVars>>

\* Variant: a transport error is propagated out of run_consumer.
SelectError_Fatal ==
    /\ pc = "select"
    /\ transport_errs < MaxTransportErrs
    /\ transport_errs' = transport_errs + 1
    /\ errors' = errors + 1
    /\ listener' = "none"
    /\ pc' = "exited"
    /\ result' = "Err"
    /\ UNCHANGED <<impl, msg, localVars, delivered, decodable,
                   cause, histVars,
                   messages_processed, latency, signalled, serverVars>>

\* select! branch messages.next() = Some(Err(e)): count it and loop, which
\* builds the next select! with a new ctrl_c future.
SelectError ==
    /\ pc = "select"
    /\ transport_errs < MaxTransportErrs
    /\ transport_errs' = transport_errs + 1
    /\ errors' = errors + 1
    /\ listener' = "armed"
    /\ pc' = "select"
    /\ UNCHANGED <<impl, result, msg, localVars, delivered, decodable,
                   cause, histVars,
                   messages_processed, latency, signalled, serverVars>>

\* select! branch messages.next() = None: break, then Ok(()).
SelectEnd ==
    /\ pc = "select"
    /\ listener' = "none"
    /\ pc' = "exited"
    /\ cause' = "end"
    /\ result' = "Ok"
    /\ UNCHANGED <<impl, msg, localVars, delivered, decodable,
                   transport_errs, histVars,
                   metricsVars, signalled, serverVars>>

(***************************************************************************)
(* process_message, one action per stretch of code between two awaits.     *)
(***************************************************************************)
\* Variant: once an error has been counted, later messages are no longer
\* counted as processed.
DecodeOk_AfterError ==
    IF errors > 0
    THEN <<"decode_ok", "run_inference">>
    ELSE <<"decode_ok", "processed.inc", "run_inference">>

\* Lines 175-176, 185, 188: the payload decodes; count the message and
\* call run_inference.
DecodeOk == <<"decode_ok", "processed.inc", "run_inference">>

\* Variant: the message is counted before the payload is decoded.
DecodeErr_CountsProcessed ==
    <<"decode_err", "processed.inc", "errors.inc", "ack">>

\* Lines 177-182: the payload does not decode; count the error, ack, return.
DecodeErr == <<"decode_err", "errors.inc", "ack">>

PM_Decode ==
    /\ pc = "received"
    /\ LET d == Decoded[msg.payload]
       IN  IF d.ok
           THEN /\ input' = d.v
                /\ Run(DecodeOk)
                /\ pc' = "inference"
           ELSE /\ Run(DecodeErr)
                /\ pc' = "ack"
                /\ UNCHANGED input
    /\ UNCHANGED <<impl, listener, result, msg, neural_features, dgraph_facts,
                   pullVars, released, ack_result, base, verdict,
                   signalled, serverVars>>

\* What the awaited run_inference may return: the shipped placeholder's
\* result, or under the stage contract any feature map or an error.
InferenceResults ==
    IF impl = "shipped"
    THEN {run_inference(input.content_hash)}
    ELSE {run_inference(input.content_hash), StageErr}
            \cup {[ok |-> TRUE, v |-> f] : f \in FeatureMaps}

\* Lines 189, 198: run_inference returned Ok; call fetch_dgraph_facts.
InferenceOk == <<"inference_ok", "fetch_dgraph_facts">>

\* Variant: the error exit returns without the ack.
InferenceErr_NoAck == <<"inference_err", "errors.inc">>

\* Lines 190-195: run_inference returned Err; count the error, ack, return.
InferenceErr == <<"inference_err", "errors.inc", "ack">>

PM_InferenceReturn ==
    /\ pc = "inference"
    /\ \E r \in InferenceResults :
          IF r.ok
          THEN /\ neural_features' = r.v
               /\ Run(InferenceOk)
               /\ pc' = "facts"
          ELSE /\ Run(InferenceErr)
               /\ pc' = "ack"
               /\ UNCHANGED neural_features
    /\ UNCHANGED <<impl, listener, result, msg, input, dgraph_facts, pullVars,
                   released, ack_result, base, verdict, signalled,
                   serverVars>>

FactsResults ==
    IF impl = "shipped"
    THEN {fetch_dgraph_facts(input.source_id)}
    ELSE {fetch_dgraph_facts(input.source_id)} \cup FactMaps

\* Lines 198-200: fetch_dgraph_facts returned (it cannot fail); call
\* run_datalog.
FactsOk == <<"facts_ok", "run_datalog">>

PM_FactsReturn ==
    /\ pc = "facts"
    /\ \E f \in FactsResults : dgraph_facts' = f
    /\ Run(FactsOk)
    /\ pc' = "datalog"
    /\ UNCHANGED <<impl, listener, result, msg, input, neural_features, pullVars,
                   released, ack_result, base, verdict, signalled,
                   serverVars>>

DatalogResults ==
    IF impl = "shipped"
    THEN {run_datalog(neural_features, dgraph_facts)}
    ELSE {run_datalog(neural_features, dgraph_facts), StageErr}

\* Variant: the message is counted once more when the verdict is reached.
DatalogOk_CountsAgain ==
    <<"datalog_ok", "latency.observe", "processed.inc", "ack">>

\* Lines 201-206, 213-214: run_datalog returned Ok; log the verdict,
\* observe the latency, ack.
DatalogOk == <<"datalog_ok", "latency.observe", "ack">>

\* Variant: the ack is issued before the latency is observed.
DatalogErr_AckFirst ==
    <<"datalog_err", "errors.inc", "ack", "latency.observe">>

\* Lines 207-214: run_datalog returned Err; count the error, then (no
\* return here) observe the latency and ack.
DatalogErr == <<"datalog_err", "errors.inc", "latency.observe", "ack">>

PM_DatalogReturn ==
    /\ pc = "datalog"
    /\ \E r \in DatalogResults :
          IF r.ok
          THEN /\ verdict' = r.verdict
               /\ Run(DatalogOk)
          ELSE /\ Run(DatalogErr)
               /\ UNCHANGED verdict
    /\ pc' = "ack"
    /\ UNCHANGED <<impl, listener, result, msg, localVars, pullVars, released,
                   ack_result, base, signalled, serverVars>>

\* Variant: a failed ack is propagated out of run_consumer.
PM_AckReturn_Propagates ==
    /\ pc = "ack"
    /\ \E r \in {"Ok", "Err"} :
          /\ ack_result' = r
          /\ pc' = IF r = "Ok" THEN "select" ELSE "exited"
          /\ result' = IF r = "Ok" THEN result ELSE "Err"
          /\ listener' = IF r = "Ok" THEN "armed" ELSE "none"
    /\ released' = released \cup {msg.id}
    /\ base' = ZeroCounters
    /\ trace' = <<>>
    /\ verdict' = "none"
    /\ msg' = NoMsg
    /\ input' = EmptyInput
    /\ neural_features' = EmptyMap
    /\ dgraph_facts' = EmptyMap
    /\ UNCHANGED <<impl, pullVars, acks, metricsVars, signalled, serverVars>>

\* Variant: a failed ack is retried once.
PM_AckReturn_Retries ==
    /\ pc = "ack"
    /\ \E r \in {"Ok", "Err"} :
          /\ ack_result' = r
          /\ IF r = "Err" /\ acks[msg.id] < 2
             THEN /\ acks' = [acks EXCEPT ![msg.id] = @ + 1]
                  /\ UNCHANGED <<pc, listener, released, base, trace,
                                 verdict, msg, localVars>>
             ELSE /\ released' = released \cup {msg.id}
                  /\ base' = ZeroCounters
                  /\ trace' = <<>>
                  /\ verdict' = "none"
                  /\ msg' = NoMsg
                  /\ input' = EmptyInput
                  /\ neural_features' = EmptyMap
                  /\ dgraph_facts' = EmptyMap
                  /\ listener' = "armed"
                  /\ pc' = "select"
                  /\ UNCHANGED acks
    /\ UNCHANGED <<impl, result, pullVars, metricsVars, signalled,
                   serverVars>>

\* Lines 180, 193, 214 and 153: the ack call returns, its result is
\* discarded, process_message returns, the message and everything computed
\* for it are dropped and the loop builds the next select!.
PM_AckReturn ==
    /\ pc = "ack"
    /\ \E r \in {"Ok", "Err"} : ack_result' = r
    /\ released' = released \cup {msg.id}
    /\ base' = ZeroCounters
    /\ trace' = <<>>
    /\ verdict' = "none"
    /\ msg' = NoMsg
    /\ input' = EmptyInput
    /\ neural_features' = EmptyMap
    /\ dgraph_facts' = EmptyMap
    /\ listener' = "armed"
    /\ pc' = "select"
    /\ UNCHANGED <<impl, result, pullVars, acks, metricsVars, signalled,
                   serverVars>>

(***************************************************************************)
(* run_metrics_server and handle_metrics_request.                          *)
(***************************************************************************)
\* TcpListener::bind(addr).await?
Bind ==
    /\ srv = "bind"
    /\ srv' \in {"accept", "failed"}
    /\ UNCHANGED <<impl, consumerVars, metricsVars, signalled, conns,
                   last_status>>

\* listener.accept().await?: a connection spawns its handler task, an
\* error returns from run_metrics_server.
Accept ==
    /\ srv = "accept"
    /\ \/ /\ conns < MaxConns
          /\ conns' = conns + 1
          /\ UNCHANGED srv
       \/ /\ srv' = "failed"
          /\ UNCHANGED conns
    /\ UNCHANGED <<impl, consumerVars, metricsVars, signalled, last_status>>

Paths == {"/metrics", "/other"}

\* handle_metrics_request: the gathered registry for /metrics, 404 for
\* every other path.
handle_metrics_request(path) ==
    IF path = "/metrics"
    THEN [status |-> 200, body |-> Counters]
    ELSE [status |-> 404, body |-> ZeroCounters]

\* Variant: gathering the registry resets the counters it reports.
Serve_Resets ==
    /\ conns > 0
    /\ \E path \in Paths : last_status' = handle_metrics_request(path).status
    /\ messages_processed' = 0
    /\ errors' = 0
    /\ latency' = 0
    /\ UNCHANGED <<impl, consumerVars, signalled, srv, conns>>

\* A spawned connection task serves a request: the response goes to the
\* peer and nothing of it is kept.
Serve ==
    /\ conns > 0
    /\ \E path \in Paths : last_status' = handle_metrics_request(path).status
    /\ UNCHANGED <<impl, consumerVars, metricsVars, signalled, srv, conns>>

\* The connection ends (closed by the peer or by an error, which is logged).
ConnClose ==
    /\ conns > 0
    /\ conns' = conns - 1
    /\ UNCHANGED <<impl, consumerVars, metricsVars, signalled, srv, last_status>>

ConsumerStep ==
    \/ SelectCtrlC \/ SelectMessage \/ SelectError \/ SelectEnd
    \/ PM_Decode \/ PM_InferenceReturn \/ PM_FactsReturn
    \/ PM_DatalogReturn \/ PM_AckReturn

ServerStep == Bind \/ Accept \/ Serve \/ ConnClose

Next ==
    \/ Signal
    \/ SelectCtrlC
    \/ SelectMessage
    \/ SelectError
    \/ SelectEnd
    \/ PM_Decode
    \/ PM_InferenceReturn
    \/ PM_FactsReturn
    \/ PM_DatalogReturn
    \/ PM_AckReturn
    \/ Bind
    \/ Accept
    \/ Serve
    \/ ConnClose

Spec == Init /\ [][Next]_vars

\* The consumer task is scheduled: every awaited call returns and a ready
\* select! branch is taken.  The broker and the interrupt are under no
\* obligation to produce anything.
FairSpec ==
    /\ Spec
    /\ WF_vars(PM_Decode)
    /\ WF_vars(PM_InferenceReturn)
    /\ WF_vars(PM_FactsReturn)
    /\ WF_vars(PM_DatalogReturn)
    /\ WF_vars(PM_AckReturn)
    /\ WF_vars(SelectCtrlC)

(***************************************************************************)
(* run_datalog on its own: the caller of souffle_wrapper::run_datalog      *)
(* passes any feature map and any fact map (the unit tests of              *)
(* souffle_wrapper.rs do so directly).                                     *)
(***************************************************************************)
Scores == 0..10

FeatureKeys == {"fakeness_score", "emotion_score"}

DatalogFeatureInputs ==
    UNION { [D -> Scores] : D \in SUBSET FeatureKeys }

DatalogFactInputs ==
    UNION { [D -> {"true", "false", "True"}] :
              D \in SUBSET {"source_trusted"} }

DatalogInit ==
    /\ impl = "shipped"
    /\ pc = "datalog_call"
    /\ listener = "none"
    /\ result = "none"
    /\ msg = NoMsg
    /\ input = EmptyInput
    /\ neural_features \in DatalogFeatureInputs
    /\ dgraph_facts \in DatalogFactInputs
    /\ messages_processed = 0
    /\ errors = 0
    /\ latency = 0
    /\ delivered = 0
    /\ decodable = 0
    /\ transport_errs = 0
    /\ cause = "none"
    /\ signalled = "never"
    /\ acks = [h \in Handles |-> 0]
    /\ released = {}
    /\ ack_result = "none"
    /\ trace = <<>>
    /\ base = ZeroCounters
    /\ verdict = "none"
    /\ srv = "bind"
    /\ conns = 0
    /\ last_status = 0

\* let verdict = run_datalog(&features, &facts): Ok(v) or Err.
DatalogCall ==
    /\ pc = "datalog_call"
    /\ LET r == run_datalog(neural_features, dgraph_facts)
       IN  /\ result' = IF r.ok THEN "Ok" ELSE "Err"
           /\ verdict' = IF r.ok THEN r.verdict ELSE "none"
    /\ pc' = "datalog_done"
    /\ UNCHANGED <<impl, listener, msg, localVars, pullVars, acks, released,
                   ack_result, trace, base, metricsVars, signalled,
                   serverVars>>

DatalogNext == DatalogCall

DatalogSpec == DatalogInit /\ [][DatalogNext]_vars

(***************************************************************************)
(* The envelope codec on its own: a value is encoded and the bytes are     *)
(* decoded again (model_pb.rs, test_analysis_input_roundtrip).  A Rust     *)
(* String holds valid UTF-8 of any length.                                 *)
(***************************************************************************)
LongString == [i \in 1..130 |-> 97]

Strings == { <<>>, <<97>>, <<195, 169>>, LongString }

AnalysisInputs ==
    [content_hash : Strings, content_text : Strings,
     source_id : Strings, image_url : Strings]

CodecInit ==
    /\ impl = "shipped"
    /\ pc = "codec_call"
    /\ listener = "none"
    /\ result = "none"
    /\ msg = NoMsg
    /\ input \in AnalysisInputs
    /\ neural_features = EmptyMap
    /\ dgraph_facts = EmptyMap
    /\ messages_processed = 0
    /\ errors = 0
    /\ latency = 0
    /\ delivered = 0
    /\ decodable = 0
    /\ transport_errs = 0
    /\ cause = "none"
    /\ signalled = "never"
    /\ acks = [h \in Handles |-> 0]
    /\ released = {}
    /\ ack_result = "none"
    /\ trace = <<>>
    /\ base = ZeroCounters
    /\ verdict = "none"
    /\ srv = "bind"
    /\ conns = 0
    /\ last_status = 0

\* let encoded = input.encode_to_vec();
\* let decoded = AnalysisInput::decode(encoded.as_slice()): the bytes are
\* kept in msg.payload and the decoded value replaces input.
RoundTrip ==
    /\ pc = "codec_call"
    /\ LET encoded == Encode(input)
           decoded == Decode(encoded)
       IN  /\ msg' = [id |-> 0, payload |-> encoded]
           /\ result' = IF decoded.ok THEN "Ok" ELSE "Err"
           /\ input' = decoded.v
    /\ pc' = "codec_done"
    /\ UNCHANGED <<impl, listener, neural_features, dgraph_facts, pullVars,
                   histVars, metricsVars, signalled, serverVars>>

CodecNext == RoundTrip

CodecSpec == CodecInit /\ [][CodecNext]_vars

(***************************************************************************)
(* Properties.                                                             *)
(***************************************************************************)
Has(e) == \E i \in 1..Len(trace) : trace[i] = e

\* The ack of the message in hand has been issued and has not returned:
\* everything process_message does for the message has happened.
AckIssued == pc = "ack"

\* Counter changes since the message in hand was taken.
Change ==
    [processed |-> messages_processed - base.processed,
     errors |-> errors - base.errors,
     latency |-> latency - base.latency]

StageEvents ==
    {"run_inference", "fetch_dgraph_facts", "run_datalog",
     "inference_ok", "inference_err", "facts_ok", "datalog_ok", "datalog_err"}

Terminal ==
    Has("decode_err") \/ Has("inference_err") \/ Has("datalog_ok")
        \/ Has("datalog_err")

\* C1: a message whose payload decodes and whose FeatureExtractor and
\* VerdictEngine calls both succeed gets exactly one ack, raises the
\* processed counter by exactly one and leaves the error counter alone.
C1_SuccessAccounting ==
    (AckIssued /\ Decode(msg.payload).ok /\ Has("inference_ok")
        /\ Has("datalog_ok"))
    => /\ acks[msg.id] = 1
       /\ Change.processed = 1
       /\ Change.errors = 0

C1_Witness ==
    /\ AckIssued
    /\ Decode(msg.payload).ok
    /\ Has("inference_ok") /\ Has("datalog_ok")
    /\ Change.processed = 1

\* C2: a message whose payload decodes but for which a stage fails gets
\* exactly one ack, raises the error counter by exactly one and leaves the
\* processed counter alone.
C2_StageFailureAccounting ==
    (AckIssued /\ Decode(msg.payload).ok
        /\ (Has("inference_err") \/ Has("datalog_err")))
    => /\ acks[msg.id] = 1
       /\ Change.errors = 1
       /\ Change.processed = 0

\* C3: a message whose payload is not a well-formed envelope gets exactly
\* one ack, raises the error counter by exactly one, leaves the processed
\* counter and the latency histogram alone and reaches no analysis stage.
C3_DecodeFailureAccounting ==
    (AckIssued /\ ~Decode(msg.payload).ok)
    => /\ acks[msg.id] = 1
       /\ Change = [processed |-> 0, errors |-> 1, latency |-> 0]
       /\ \A i \in 1..Len(trace) : trace[i] \notin StageEvents

C3_Witness ==
    /\ AckIssued
    /\ ~Decode(msg.payload).ok
    /\ Change.errors = 1
    /\ acks[msg.id] = 1

\* C4: every handle the pull sequence delivers is eventually acknowledged,
\* and no handle is acknowledged more than once, on the success path and on
\* both failure paths, provided every awaited call returns.
C4_EveryHandleAckedOnce ==
    /\ \A h \in Handles : [](delivered >= h => <>(acks[h] = 1))
    /\ [](\A h \in Handles : acks[h] <= 1)

C4_Witness ==
    /\ released # {}
    /\ AckIssued
    /\ Has("inference_err")
    /\ acks[msg.id] = 1

\* C5: the ack is the last effect of processing a message: it is issued
\* once the outcome is known and after every counter change and latency
\* observation of that message, and no counter changes while it is
\* outstanding.
C5_AckIsLastEffect ==
    /\ [](\A i \in 1..Len(trace) : trace[i] = "ack" => i = Len(trace))
    /\ [](AckIssued => (Has("ack") /\ Terminal))
    /\ [][AckIssued => UNCHANGED metricsVars]_vars

C5_Witness ==
    /\ AckIssued
    /\ Has("datalog_err")
    /\ Has("errors.inc") /\ Has("latency.observe")
    /\ trace[Len(trace)] = "ack"

\* C6: an interrupt raised while a message is in flight never aborts its
\* processing: the interrupt changes nothing of it and the loop is not left
\* before the ack of the message has returned.
C6_SignalNeverAborts ==
    /\ [](pc = "exited" => InFlight = {})
    /\ [][InFlight # {} =>
            /\ pc' = "exited" => InFlight' = {}
            /\ Signal => UNCHANGED <<pc, msg, localVars, trace, acks, metricsVars>>
         ]_vars

C6_Witness ==
    /\ signalled = "inflight"
    /\ pc = "select"
    /\ released # {}
    /\ InFlight = {}

\* C7: once an interrupt has been raised, whether it found the loop waiting
\* in select! or processing a message, the loop eventually returns Ok.
C7_SignalLeadsToExit ==
    [](signalled # "never" => <>(pc = "exited" /\ result = "Ok"))

\* C8: a transport-level error item raises the error counter by exactly
\* one, issues no ack, leaves the processed counter and the latency
\* histogram alone, and the loop goes on pulling.
C8_TransportErrorContinues ==
    [][transport_errs' # transport_errs =>
          /\ errors' = errors + 1
          /\ UNCHANGED <<messages_processed, latency, acks>>
          /\ pc' = "select"
          /\ listener' = "armed"
          /\ result' = "none"
      ]_vars

C8_Witness ==
    /\ transport_errs >= 1
    /\ pc = "received"
    /\ base.errors >= 1
    /\ result = "none"

\* C9: messages are processed one at a time: at most one handle is in
\* flight, and an item is taken from the pull sequence only when the ack of
\* the previous message has returned.
C9_OneAtATime ==
    /\ [](Cardinality(InFlight) <= 1)
    /\ [][(delivered' # delivered \/ transport_errs' # transport_errs
             \/ cause' # cause) => InFlight = {}]_vars

C9_Witness ==
    /\ delivered = 2
    /\ released = {1}
    /\ InFlight = {2}

\* C10: however request handling interleaves with message processing, a
\* step of the metrics server, for /metrics or any other path, leaves the
\* counters and the latency histogram unchanged, and it leaves unchanged
\* everything the guards of the consumer's steps read.
C10_ServerOnlyReads ==
    [][ServerStep => UNCHANGED <<consumerVars, metricsVars>>]_vars

C10_Witness ==
    /\ InFlight # {}
    /\ last_status = 200
    /\ messages_processed >= 1

\* C11: run_datalog never fails, and for every feature map and fact map it
\* returns DISINFO when fakeness_score is above 0.8 and source_trusted is
\* not the string "true" (an absent source_trusted included), otherwise
\* SUSPICIOUS when fakeness_score is above 0.6 whatever the facts are,
\* otherwise SAFE; an absent fakeness_score counts as 0.0.  So 0.9 from an
\* untrusted source is DISINFO, 0.7 is SUSPICIOUS with any facts, and 0.3
\* from a trusted source is SAFE.
Fakeness ==
    IF "fakeness_score" \in DOMAIN neural_features
    THEN neural_features["fakeness_score"] ELSE 0

TrustedTrue ==
    /\ "source_trusted" \in DOMAIN dgraph_facts
    /\ dgraph_facts["source_trusted"] = "true"

C11_DatalogRules ==
    pc = "datalog_done"
    => /\ result = "Ok"
       /\ (Fakeness > 8 /\ ~TrustedTrue) => verdict = "DISINFO"
       /\ (~(Fakeness > 8 /\ ~TrustedTrue) /\ Fakeness > 6)
            => verdict = "SUSPICIOUS"
       /\ (~(Fakeness > 8 /\ ~TrustedTrue) /\ ~(Fakeness > 6))
            => verdict = "SAFE"
       /\ "fakeness_score" \notin DOMAIN neural_features
            => verdict = "SAFE"
       /\ (Fakeness = 9 /\ ~TrustedTrue) => verdict = "DISINFO"
       /\ Fakeness = 7 => verdict = "SUSPICIOUS"
       /\ (Fakeness = 3 /\ TrustedTrue) => verdict = "SAFE"

C11_Witness ==
    /\ pc = "datalog_done"
    /\ Fakeness = 9
    /\ "source_trusted" \notin DOMAIN dgraph_facts
    /\ verdict = "DISINFO"

\* C12: for every valid AnalysisInput (four strings, any of them possibly
\* empty), decoding the encoding succeeds and gives back the same value,
\* field for field.
C12_RoundTrip ==
    [][pc = "codec_call"
         => /\ result' = "Ok"
            /\ input'.content_hash = input.content_hash
            /\ input'.content_text = input.content_text
            /\ input'.source_id = input.source_id
            /\ input'.image_url = input.image_url]_vars

C12_Witness ==
    /\ pc = "codec_done"
    /\ input.content_hash = <<>>
    /\ input.content_text = LongString
    /\ input.source_id = <<195, 169>>
    /\ input.image_url = <<97>>
    /\ Len(msg.payload) = 3 + 130 + 4 + 3

\* C13: processing is stateless across messages.  The verdict and the
\* counter changes of a message are a function of its payload and of what
\* the stages returned for it, and with the shipped stages of the payload
\* alone; nothing else (which messages came before, how many, the counter
\* values) enters.  So the same payload processed twice gives the same
\* verdict and the same counter changes both times.
Outcome == [verdict |-> verdict, change |-> Change]

ErrorOutcome(processed, latency_obs) ==
    [verdict |-> "none",
     change |-> [processed |-> processed, errors |-> 1,
                 latency |-> latency_obs]]

VerdictOutcome(v) ==
    [verdict |-> v,
     change |-> [processed |-> 1, errors |-> 0, latency |-> 1]]

OutcomeOfStages ==
    IF ~Decoded[msg.payload].ok THEN ErrorOutcome(0, 0)
    ELSE IF Has("inference_err") THEN ErrorOutcome(1, 0)
    ELSE IF Has("datalog_err") THEN ErrorOutcome(1, 1)
    ELSE VerdictOutcome(run_datalog(neural_features, dgraph_facts).verdict)

OutcomeOfPayload(p) ==
    LET d == Decoded[p]
    IN  IF ~d.ok THEN ErrorOutcome(0, 0)
        ELSE VerdictOutcome(
                 run_datalog(run_inference(d.v.content_hash).v,
                             fetch_dgraph_facts(d.v.source_id)).verdict)

C13_Stateless ==
    AckIssued
    => /\ Outcome = OutcomeOfStages
       /\ impl = "shipped" => Outcome = OutcomeOfPayload(msg.payload)

C13_Witness ==
    /\ AckIssued
    /\ impl = "shipped"
    /\ msg.id = 2
    /\ base.errors = 2
    /\ base.processed = 0
    /\ verdict = "SAFE"

\* C14: for one message the stages run in the fixed order decode,
\* FeatureExtractor, FactSource, VerdictEngine, ack, each at most once and
\* each only after the one before it succeeded; after a failure the only
\* things that still happen for the message are the single error-counter
\* increment and the ack: no later stage and no other metrics change.
Pos(e) == CHOOSE i \in 1..Len(trace) : trace[i] = e

Follows(a, b) == Has(b) => (Has(a) /\ Pos(a) < Pos(b))

Failures == {"decode_err", "inference_err", "datalog_err"}

C14_StageOrder ==
    /\ Count(trace, "decode_ok") + Count(trace, "decode_err") <= 1
    /\ \A e \in {"run_inference", "fetch_dgraph_facts", "run_datalog",
                  "ack"} : Count(trace, e) <= 1
    /\ Follows("decode_ok", "run_inference")
    /\ Follows("run_inference", "inference_ok")
    /\ Follows("inference_ok", "fetch_dgraph_facts")
    /\ Follows("fetch_dgraph_facts", "facts_ok")
    /\ Follows("facts_ok", "run_datalog")
    /\ Follows("run_datalog", "datalog_ok")
    /\ Has("ack") => Pos("ack") = Len(trace)
    /\ \A i \in 1..Len(trace) :
          trace[i] \in Failures
          => SubSeq(trace, i + 1, Len(trace)) = <<"errors.inc", "ack">>

\* C15: the latency observation and the processed increment happen
\* together, only when a verdict has been reached; a message that takes an
\* error exit contributes neither.  So whenever no message is in flight the
\* number of latency observations equals the processed counter.
C15_LatencyMatchesProcessed ==
    /\ InFlight = {} => latency = messages_processed
    /\ (AckIssued /\ ~Has("datalog_ok"))
        => (Change.latency = 0 /\ Change.processed = 0)

\* C16: the consumer loop is left only on the shutdown signal or at the end
\* of the pull sequence, and run_consumer then returns Ok; no decode error,
\* stage error, ack error or transport error item ends the loop or makes
\* run_consumer return an error.
C16_OnlySignalOrEndExits ==
    /\ [](result # "Err")
    /\ [](pc = "exited" => (result = "Ok" /\ cause \in {"signal", "end"}))
    /\ [][(pc # "exited" /\ pc' = "exited")
           => /\ pc = "select"
              /\ UNCHANGED <<errors, ack_result, transport_errs>>
              /\ cause' = "signal" => listener = "fired"]_vars
    /\ [][(pc # "exited" /\ (errors' # errors \/ pc # "select"))
           => pc' # "exited"]_vars

C16_Witness ==
    /\ pc = "exited"
    /\ cause = "end"
    /\ result = "Ok"
    /\ transport_errs = 1
    /\ errors = 3
    /\ ack_result = "Err"

\* C17: when the ack call fails it is not retried (the message has had
\* exactly one ack attempt), no counter changes because of the failure, and
\* the loop goes back to select! to fetch the next message.
C17_AckFailureIgnored ==
    /\ [](\A h \in Handles : acks[h] <= 1)
    /\ [][(pc = "ack" /\ ack_result' = "Err")
           => /\ acks[msg.id] = 1
              /\ UNCHANGED <<acks, metricsVars, result>>
              /\ released' = released \cup {msg.id}
              /\ pc' = "select"
              /\ listener' = "armed"]_vars

C17_Witness ==
    /\ pc = "select"
    /\ listener = "armed"
    /\ ack_result = "Err"
    /\ delivered = 1
    /\ acks[1] = 1
    /\ messages_processed = 1
    /\ errors = 0
    /\ latency = 1

\* C18: the metrics server runs for the lifetime of the process: as long as
\* the consumer loop is running, the listener that has been bound keeps
\* accepting, whatever errors earlier accepts or connections had.
C18_ServerKeepsAccepting ==
    [][(srv = "accept" /\ pc # "exited") => srv' = "accept"]_vars

\* C19: the processed counter is incremented right after a successful
\* decode, before any stage is called, so whenever no message is in flight
\* it equals the number of fetched messages whose payload decoded, whatever
\* the stages returned; and each item taken from the pull sequence
\* increments the error counter at most once.
C19_ProcessedCountsDecoded ==
    /\ InFlight = {} => messages_processed = decodable
    /\ Has("decode_ok")
        => (Len(trace) >= 2 /\ trace[1] = "decode_ok"
               /\ trace[2] = "processed.inc")
    /\ Follows("processed.inc", "run_inference")
    /\ Count(trace, "processed.inc") <= 1
    /\ Count(trace, "errors.inc") <= 1
    /\ InFlight # {} => Change.errors = Count(trace, "errors.inc")
    /\ errors <= delivered + transport_errs

C19_Witness ==
    /\ InFlight = {}
    /\ delivered = 2
    /\ decodable = 1
    /\ messages_processed = 1
    /\ latency = 0
    /\ errors = 2
    /\ transport_errs = 0

\* C20: with the shipped stage implementations every message whose payload
\* decodes gets the verdict SAFE, the two stage-error exits are never
\* taken, and the error counter changes only on decode failures and on
\* transport error items.
C20_ShippedStages ==
    /\ [](impl = "shipped"
           => /\ ~Has("inference_err")
              /\ ~Has("datalog_err")
              /\ (AckIssued /\ Decoded[msg.payload].ok) => verdict = "SAFE"
              /\ InFlight = {}
                  => errors = transport_errs + (delivered - decodable))
    /\ [][(impl = "shipped" /\ errors' # errors)
           => \/ transport_errs' # transport_errs
              \/ pc = "received" /\ ~Decoded[msg.payload].ok]_vars

C20_Witness ==
    /\ impl = "shipped"
    /\ pc = "exited"
    /\ delivered = 2
    /\ decodable = 1
    /\ transport_errs = 1
    /\ errors = 2
    /\ messages_processed = 1
    /\ latency = 1

=============================================================================
